---- MODULE Spec2Model ----
(***************************************************************************)
(* Cache-aside response caching of the bug-bounty admin API:               *)
(*   CacheService  (src/unnamed/part_007, services/cache.service.ts)       *)
(*   cacheMiddleware / invalidateCache                                     *)
(*                 (src/src/middleware/context.middleware.ts)              *)
(*                                                                         *)
(* Strings are sequences of one-character strings where the code looks     *)
(* inside them (payloads handed to JSON.parse) and sequences of            *)
(* ':'-separated segments where it only concatenates and glob-matches      *)
(* them (cache keys).                                                      *)
(***************************************************************************)
EXTENDS Integers, Sequences, FiniteSets, TLC

VARIABLES
  isConnected,  \* CacheService.isConnected
  stats,        \* CacheService.stats
  store,        \* contents of the Redis server: physical key -> [val, ttl]
  last,         \* the CacheService call that completed last, with its result
  nops,         \* number of CacheService calls / client events so far
  req,          \* HTTP requests in flight: slot -> request record
  db,           \* the authoritative data: number of reports
  produced,     \* 2xx responses the route handlers have emitted so far
  keyIn,        \* key generator inputs: a pair of requests
  keyOut        \* key generator outputs for keyIn

\* nops first: the steps that change last change nops
vars == <<nops, isConnected, stats, store, last, req, db, produced,
          keyIn, keyOut>>

svcVars  == <<isConnected, stats, store>>
httpVars == <<req, db, produced>>
keyVars  == <<keyIn, keyOut>>

----------------------------------------------------------------------------
(* Bounds of the model *)

MaxOps == 3        \* CacheService calls and client events per behaviour
MaxReqs == 3       \* HTTP requests per behaviour
MaxConc == 2       \* of them, those that may run concurrently
MaxParams == 2     \* query parameters of a request
MaxDb == 2         \* reports that can be created

----------------------------------------------------------------------------
(* JavaScript values and JSON *)

DQ == "\""
BS == "\\"
DigitChar == <<"0", "1", "2", "3", "4", "5", "6", "7", "8", "9">>
Digits == {DigitChar[i] : i \in 1..10}

\* the decimal digits of a natural number
RECURSIVE Numeral(_)
Numeral(n) ==
  IF n < 10 THEN <<DigitChar[n + 1]>>
  ELSE Numeral(n \div 10) \o <<DigitChar[(n % 10) + 1]>>

\* a JavaScript string: its characters, or the JSON text of an object
\* (object texts are kept whole: nothing in the code looks inside one)
Chars(s)   == [k |-> "chars", s |-> s]
ObjText(o) == [k |-> "objtext", s |-> o]

Null    == [t |-> "null", v |-> 0]
Num(d)  == [t |-> "num", v |-> d]     \* d: the decimal digits
Str(x)  == [t |-> "str", v |-> x]     \* x: Chars(..) or ObjText(..)
Obj(o)  == [t |-> "obj", v |-> o]     \* o: a record of JSON values

NullLit == <<"n", "u", "l", "l">>

RECURSIVE Escape(_)
Escape(s) ==
  IF s = <<>> THEN <<>>
  ELSE IF Head(s) \in {DQ, BS} THEN <<BS, Head(s)>> \o Escape(Tail(s))
  ELSE <<Head(s)>> \o Escape(Tail(s))

\* the inside of a JSON string literal: [ok, out]
RECURSIVE Unescape(_)
Unescape(s) ==
  IF s = <<>> THEN [ok |-> TRUE, out |-> <<>>]
  ELSE IF Head(s) = DQ THEN [ok |-> FALSE, out |-> <<>>]
  ELSE IF Head(s) = BS
    THEN IF Len(s) >= 2 /\ s[2] \in {DQ, BS}
         THEN LET r == Unescape(Tail(Tail(s)))
              IN  [ok |-> r.ok, out |-> <<s[2]>> \o r.out]
         ELSE [ok |-> FALSE, out |-> <<>>]
  ELSE LET r == Unescape(Tail(s))
       IN  [ok |-> r.ok, out |-> <<Head(s)>> \o r.out]

IsNumberLit(s) ==
  /\ Len(s) > 0
  /\ \A i \in 1..Len(s) : s[i] \in Digits
  /\ (Len(s) = 1 \/ s[1] # "0")

\* JSON.stringify(value)
JSONstringify(v) ==
  CASE v.t = "null" -> Chars(NullLit)
    [] v.t = "num"  -> Chars(v.v)
    [] v.t = "obj"  -> ObjText(v.v)
    [] v.t = "str"  ->
         IF v.v.k = "chars" THEN Chars(<<DQ>> \o Escape(v.v.s) \o <<DQ>>)
         ELSE [k |-> "quoted", s |-> v.v.s]

\* JSON.parse(text): [ok |-> FALSE] stands for the SyntaxError it throws
JSONparse(text) ==
  CASE text.k = "objtext" -> [ok |-> TRUE, val |-> Obj(text.s)]
    [] text.k = "quoted"  -> [ok |-> TRUE, val |-> Str(ObjText(text.s))]
    [] text.k = "chars"   ->
         LET s == text.s IN
         IF s = NullLit THEN [ok |-> TRUE, val |-> Null]
         ELSE IF IsNumberLit(s) THEN [ok |-> TRUE, val |-> Num(s)]
         ELSE IF Len(s) >= 2 /\ s[1] = DQ /\ s[Len(s)] = DQ
           THEN LET r == Unescape(SubSeq(s, 2, Len(s) - 1))
                IN  IF r.ok THEN [ok |-> TRUE, val |-> Str(Chars(r.out))]
                    ELSE [ok |-> FALSE, val |-> Null]
         ELSE [ok |-> FALSE, val |-> Null]

----------------------------------------------------------------------------
(* The Redis client (ioredis) as CacheService configures it *)

\* keyPrefix: 'bug-bounty:' -- as a key segment
keyPrefix == <<"bug-bounty">>

defaultTTL == 300

NoStats == [hits |-> 0, misses |-> 0, sets |-> 0, deletes |-> 0, errors |-> 0]

\* ioredis prepends keyPrefix to the key arguments of a command ...
Physical(key) == keyPrefix \o key

\* glob match of a key against a pattern, both as segments; a segment "*"
\* at the end of a pattern stands for the rest of the key, whatever it is
RECURSIVE GlobMatch(_, _)
GlobMatch(pat, key) ==
  IF pat = <<>> THEN key = <<>>
  ELSE IF pat = <<"*">> THEN key # <<>>
  ELSE /\ key # <<>>
       /\ (Head(pat) = "*" \/ Head(pat) = Head(key))
       /\ GlobMatch(Tail(pat), Tail(key))

\* the reply null of GET and MGET
Nil == [k |-> "nil", s |-> <<>>]

redisGet(sto, key) ==
  IF Physical(key) \in DOMAIN sto THEN sto[Physical(key)].val ELSE Nil

\* a SETEX that leaves an existing entry as it is
redisSetexIfAbsent(sto, key, ttl, val) ==
  [k \in DOMAIN sto \cup {Physical(key)} |->
     IF k \in DOMAIN sto THEN sto[k] ELSE [val |-> val, ttl |-> ttl]]

redisSetex(sto, key, ttl, val) ==
  [k \in DOMAIN sto \cup {Physical(key)} |->
     IF k = Physical(key) THEN [val |-> val, ttl |-> ttl] ELSE sto[k]]

\* number of keys removed, and the store after the removal
redisDel(sto, keys) ==
  LET gone == {Physical(k) : k \in keys} \cap DOMAIN sto
  IN  [n |-> Cardinality(gone),
       store |-> [k \in DOMAIN sto \ gone |-> sto[k]]]

redisExists(sto, key) == IF Physical(key) \in DOMAIN sto THEN 1 ELSE 0

\* ... but not to the pattern of KEYS, and the key names KEYS replies with
\* are the names as the server holds them
redisKeys(sto, pattern) == {k \in DOMAIN sto : GlobMatch(pattern, k)}

redisFlushall(sto) == [k \in {} |-> 0]

----------------------------------------------------------------------------
(* CacheService.  An operation takes the connected flag, the counters and  *)
(* the store as it finds them, and `fail`, the ordinal of the store call   *)
(* that throws (0: none does); it yields what it returns and leaves.       *)

\* metrics: the samples the operation handed to metricsCollector.recordMetric
Outcome(ret, st, sto, cmds) ==
  [ret |-> ret, stats |-> st, store |-> sto, cmds |-> cmds, threw |-> FALSE,
   metrics |-> <<>>]

\* a rejected promise: the exception leaves the async function
Thrown(st, sto, cmds) ==
  [ret |-> Null, stats |-> st, store |-> sto, cmds |-> cmds, threw |-> TRUE,
   metrics |-> <<>>]

\* recordMetric('cache_operation_duration', duration, 'milliseconds',
\* {operation}): the duration itself is left out
DurationSample(operation) ==
  [name |-> "cache_operation_duration", value |-> 0, operation |-> operation]

\* recordMetric(name, value, 'count')
CountSample(name, value) == [name |-> name, value |-> value, operation |-> ""]

\* an outcome reached after the operation recorded the samples
Recorded(out, samples) == [out EXCEPT !.metrics = samples]

buildKey(key, prefix) == IF prefix # <<>> THEN prefix \o key ELSE key

NoOpts == [ttl |-> 0, prefix |-> <<>>]

\* a fallback closure: the value it returns and the misses it counts
Fallback(ret, misses) == [ret |-> ret, misses |-> misses]

\* the wrapper without its guard on the connected flag
executeWithFallbackUnguarded(connected, st, sto, op, fallback) ==
  IF op.threw
  THEN Outcome(fallback.ret,
               [op.stats EXCEPT !.errors = @ + 1,
                                !.misses = @ + fallback.misses],
               op.store, op.cmds)
  ELSE op

\* the wrapper with a catch block that does not count the error
executeWithFallbackUncounted(connected, st, sto, op, fallback) ==
  IF ~connected
  THEN Outcome(fallback.ret, [st EXCEPT !.misses = @ + fallback.misses],
               sto, <<>>)
  ELSE IF op.threw
  THEN Outcome(fallback.ret,
               [op.stats EXCEPT !.misses = @ + fallback.misses],
               op.store, op.cmds)
  ELSE op

executeWithFallback(connected, st, sto, op, fallback) ==
  IF ~connected
  THEN Outcome(fallback.ret, [st EXCEPT !.misses = @ + fallback.misses],
               sto, <<>>)
  ELSE IF op.threw
  THEN Outcome(fallback.ret,
               [op.stats EXCEPT !.errors = @ + 1,
                                !.misses = @ + fallback.misses],
               op.store, op.cmds)
  ELSE op

\* a get without the inner try: the SyntaxError of JSON.parse leaves the
\* operation
getParseThrowing(connected, st, sto, key, options, fail) ==
  LET fullKey == buildKey(key, options.prefix)
      result  == redisGet(sto, fullKey)
      parsed  == JSONparse(result)
      op == IF fail = 1 THEN Thrown(st, sto, <<"get">>)
            ELSE IF result # Nil
            THEN IF parsed.ok
                 THEN Outcome(parsed.val, [st EXCEPT !.hits = @ + 1], sto,
                              <<"get">>)
                 ELSE Thrown([st EXCEPT !.hits = @ + 1], sto, <<"get">>)
            ELSE Outcome(Null, [st EXCEPT !.misses = @ + 1], sto, <<"get">>)
  IN  executeWithFallback(connected, st, sto, op, Fallback(Null, 1))

get(connected, st, sto, key, options, fail) ==
  LET fullKey == buildKey(key, options.prefix)
      result  == redisGet(sto, fullKey)
      parsed  == JSONparse(result)
      op == IF fail = 1 THEN Thrown(st, sto, <<"get">>)
            ELSE IF result # Nil
            THEN Recorded(
                   Outcome(IF parsed.ok THEN parsed.val ELSE Str(result),
                           [st EXCEPT !.hits = @ + 1], sto, <<"get">>),
                   <<DurationSample("get"), CountSample("cache_hits_total", 1)>>)
            ELSE Recorded(
                   Outcome(Null, [st EXCEPT !.misses = @ + 1], sto, <<"get">>),
                   <<DurationSample("get"),
                     CountSample("cache_misses_total", 1)>>)
  IN  executeWithFallback(connected, st, sto, op, Fallback(Null, 1))

\* a serialization that encodes strings as JSON too
serializeQuoting(value) == JSONstringify(value)

serialize(value) == IF value.t = "str" THEN value.v ELSE JSONstringify(value)

\* a set that writes every entry with the default TTL
setDefaultTtlOnly(connected, st, sto, key, value, options, fail) ==
  LET fullKey == buildKey(key, options.prefix)
      op == IF fail = 1 THEN Thrown(st, sto, <<"setex">>)
            ELSE Outcome(TRUE, [st EXCEPT !.sets = @ + 1],
                         redisSetex(sto, fullKey, defaultTTL, serialize(value)),
                         <<"setex">>)
  IN  executeWithFallback(connected, st, sto, op, Fallback(FALSE, 0))

set(connected, st, sto, key, value, options, fail) ==
  LET fullKey == buildKey(key, options.prefix)
      ttl == IF options.ttl # 0 THEN options.ttl ELSE defaultTTL
      op == IF fail = 1 THEN Thrown(st, sto, <<"setex">>)
            ELSE Recorded(
                   Outcome(TRUE, [st EXCEPT !.sets = @ + 1],
                           redisSetex(sto, fullKey, ttl, serialize(value)),
                           <<"setex">>),
                   <<DurationSample("set"), CountSample("cache_sets_total", 1)>>)
  IN  executeWithFallback(connected, st, sto, op, Fallback(FALSE, 0))

delete(connected, st, sto, key, options, fail) ==
  LET fullKey == buildKey(key, options.prefix)
      result  == redisDel(sto, {fullKey})
      op == IF fail = 1 THEN Thrown(st, sto, <<"del">>)
            ELSE Recorded(
                   Outcome(result.n > 0, [st EXCEPT !.deletes = @ + 1],
                           result.store, <<"del">>),
                   <<DurationSample("delete"),
                     CountSample("cache_deletes_total", 1)>>)
  IN  executeWithFallback(connected, st, sto, op, Fallback(FALSE, 0))

exists(connected, st, sto, key, options, fail) ==
  LET fullKey == buildKey(key, options.prefix)
      op == IF fail = 1 THEN Thrown(st, sto, <<"exists">>)
            ELSE Outcome(redisExists(sto, fullKey) = 1, st, sto, <<"exists">>)
  IN  executeWithFallback(connected, st, sto, op, Fallback(FALSE, 0))

\* keys(pattern), then del(...keys) when the reply is not empty
scanAndDelete(st, sto, pattern, fail) ==
  LET keys == redisKeys(sto, pattern)
  IN  IF fail = 1 THEN Thrown(st, sto, <<"keys">>)
      ELSE IF keys = {} THEN Outcome(0, st, sto, <<"keys">>)
      ELSE IF fail = 2 THEN Thrown(st, sto, <<"keys", "del">>)
      ELSE Outcome(Cardinality(keys), st, redisDel(sto, keys).store,
                   <<"keys", "del">>)

\* pattern <<>>: flush() without a pattern
flush(connected, st, sto, pattern, fail) ==
  LET scan == scanAndDelete(st, sto, pattern, fail)
      op == IF pattern # <<>>
            THEN IF scan.threw THEN scan
                 ELSE Outcome(TRUE, st, scan.store, scan.cmds)
            ELSE IF fail = 1 THEN Thrown(st, sto, <<"flushall">>)
            ELSE Outcome(TRUE, st, redisFlushall(sto), <<"flushall">>)
  IN  executeWithFallback(connected, st, sto, op, Fallback(FALSE, 0))

invalidatePattern(connected, st, sto, pattern, fail) ==
  LET op == scanAndDelete(st, sto, pattern, fail)
  IN  executeWithFallback(connected, st, sto, op, Fallback(0, 0))

\* the results of mget mapped in order, with the counters after each
RECURSIVE mapResults(_, _)
mapResults(results, st) ==
  IF results = <<>> THEN [vals |-> <<>>, stats |-> st]
  ELSE LET r == Head(results)
           parsed == JSONparse(r)
           v  == IF r = Nil THEN Null
                 ELSE IF parsed.ok THEN parsed.val ELSE Str(r)
           s1 == IF r = Nil THEN [st EXCEPT !.misses = @ + 1]
                 ELSE [st EXCEPT !.hits = @ + 1]
           rest == mapResults(Tail(results), s1)
       IN  [vals |-> <<v>> \o rest.vals, stats |-> rest.stats]

\* a getMultiple whose fallback counts one miss for the whole call
getMultipleOneMiss(connected, st, sto, keys, options, fail) ==
  LET results == [i \in 1..Len(keys) |->
                    redisGet(sto, buildKey(keys[i], options.prefix))]
      mapped == mapResults(results, st)
      op == IF fail = 1 THEN Thrown(st, sto, <<"mget">>)
            ELSE Outcome(mapped.vals, mapped.stats, sto, <<"mget">>)
  IN  executeWithFallback(connected, st, sto, op,
                          Fallback([i \in 1..Len(keys) |-> Null], 1))

getMultiple(connected, st, sto, keys, options, fail) ==
  LET results == [i \in 1..Len(keys) |->
                    redisGet(sto, buildKey(keys[i], options.prefix))]
      mapped == mapResults(results, st)
      op == IF fail = 1 THEN Thrown(st, sto, <<"mget">>)
            ELSE Outcome(mapped.vals, mapped.stats, sto, <<"mget">>)
  IN  executeWithFallback(connected, st, sto, op,
                          Fallback([i \in 1..Len(keys) |-> Null], Len(keys)))

\* the pipeline's setex commands applied in order
RECURSIVE pipelineExec(_, _, _)
pipelineExec(sto, entries, options) ==
  IF entries = <<>> THEN sto
  ELSE LET e == Head(entries)
           ttl == IF e.ttl # 0 THEN e.ttl
                  ELSE IF options.ttl # 0 THEN options.ttl ELSE defaultTTL
       IN  pipelineExec(redisSetex(sto, buildKey(e.key, options.prefix), ttl,
                                   serialize(e.value)),
                        Tail(entries), options)

setMultiple(connected, st, sto, entries, options, fail) ==
  LET op == IF fail = 1 THEN Thrown(st, sto, <<"exec">>)
            ELSE Recorded(
                   Outcome(TRUE, [st EXCEPT !.sets = @ + Len(entries)],
                           pipelineExec(sto, entries, options), <<"exec">>),
                   <<CountSample("cache_sets_total", Len(entries))>>)
  IN  executeWithFallback(connected, st, sto, op, Fallback(FALSE, 0))

\* Math.round(n / d) for n >= 0 and d > 0: the nearest integer, a half
\* going up
MathRound(n, d) == (2 * n + d) \div (2 * d)

\* getStats with the rate cut off after two decimals
getStatsTruncating(st) ==
  LET totalRequests == st.hits + st.misses
      hitRate == IF totalRequests > 0
                 THEN (st.hits * 100 * 100) \div totalRequests
                 ELSE 0
  IN  [hits |-> st.hits, misses |-> st.misses, sets |-> st.sets,
       deletes |-> st.deletes, errors |-> st.errors, hitRate |-> hitRate]

\* the counters and the hit rate; hitRate is Math.round(hitRate * 100) / 100
\* and is held here in hundredths of a percent (3333 is 33.33)
getStats(st) ==
  LET totalRequests == st.hits + st.misses
      hitRate == IF totalRequests > 0
                 THEN MathRound(st.hits * 100 * 100, totalRequests)
                 ELSE 0
  IN  [hits |-> st.hits, misses |-> st.misses, sets |-> st.sets,
       deletes |-> st.deletes, errors |-> st.errors, hitRate |-> hitRate]

\* connect with the catch block throwing the error on
connectRethrowing(st, sto, fail) ==
  IF fail = 1 THEN Thrown(st, sto, <<"connect">>)
  ELSE Outcome([logged |-> FALSE], st, sto, <<"connect">>)

\* connect awaits redis.connect() and swallows its rejection (fail = 1) after
\* logging it; it assigns nothing (the flag is set by the client's events);
\* the result records whether the error line was logged
connect(st, sto, fail) ==
  Outcome([logged |-> (fail = 1)], st, sto, <<"connect">>)

\* what redis.ping() did: it rejected with an error carrying a message, or
\* it resolved after latency milliseconds by Date.now()
PingThrew(message) == [threw |-> TRUE, message |-> message, latency |-> 0]
PingTook(latency) == [threw |-> FALSE, message |-> "", latency |-> latency]

\* healthCheck with the limit of 100 ms counted as healthy
healthCheckInclusive(ping) ==
  IF ping.threw
  THEN [status |-> "unhealthy", error |-> ping.message]
  ELSE [status |-> IF ping.latency <= 100 THEN "healthy" ELSE "degraded",
        latency |-> ping.latency]

\* the try block returns status and latency, the catch block status and
\* error; the connected flag is not read
healthCheck(ping) ==
  IF ping.threw
  THEN [status |-> "unhealthy", error |-> ping.message]
  ELSE [status |-> IF ping.latency < 100 THEN "healthy" ELSE "degraded",
        latency |-> ping.latency]

\* a reset that leaves the error counter as it is
resetStatsKeepsErrors(st) == [NoStats EXCEPT !.errors = st.errors]

\* resetStats assigns a fresh record of zeros
resetStats(st) == NoStats

\* disconnect: under the flag, redis.disconnect() and the flag set to false;
\* it yields the flag it leaves and the commands it sent to the client
disconnect(connected) ==
  [connected |-> FALSE,
   cmds |-> IF connected THEN <<"disconnect">> ELSE <<>>]

----------------------------------------------------------------------------
(* The state after construction *)

\* seq: the ordinal of the call; conn: the connected flag it found; fail:
\* the ordinal of its store call that was made to throw; cmds: the commands
\* it sent to the client; metrics: the samples it recorded
NoCall == [op |-> "none", args |-> <<>>, opts |-> NoOpts, seq |-> 0,
           conn |-> FALSE, fail |-> 0, ret |-> Null, threw |-> FALSE,
           cmds |-> <<>>, metrics |-> <<>>]

EmptyStore == [k \in {} |-> 0]

SvcInit ==
  /\ isConnected = FALSE
  /\ stats = NoStats
  /\ store = EmptyStore
  /\ last = NoCall
  /\ nops = 0

----------------------------------------------------------------------------
(* SvcSpec: callers of CacheService, one call at a time, against a store   *)
(* whose calls may throw, and the events of the client                     *)

SvcKeys == {<<"a">>, <<"b">>}

SvcOptions == {NoOpts, [ttl |-> 600, prefix |-> <<"test">>]}

SvcValues ==
  { Null, Num(<<"1">>), Str(Chars(<<"a">>)), Str(Chars(<<"1">>)),
    Str(Chars(NullLit)), Obj([id |-> Num(<<"1">>)]) }

SvcPatterns == { <<"*">>, <<"test", "*">>, <<"bug-bounty", "test", "*">> }

SvcKeyLists ==
  { <<<<"a">>, <<"b">>>>, <<<<"b">>>>, <<<<"a">>, <<"b">>, <<"c">>>> }

SvcEntryLists ==
  { << [key |-> <<"a">>, value |-> Str(Chars(<<"1">>)), ttl |-> 0],
       [key |-> <<"b">>, value |-> Num(<<"1">>), ttl |-> 600] >>,
    << [key |-> <<"a">>, value |-> Str(Chars(<<"1">>)), ttl |-> 0],
       [key |-> <<"b">>, value |-> Str(Chars(<<"2">>)), ttl |-> 600] >> }

\* a wrapper that marks the service disconnected when a store call throws
SvcCallTripping(op, args, opts, fail, out) ==
  /\ nops < MaxOps
  /\ nops' = nops + 1
  /\ stats' = out.stats
  /\ store' = out.store
  /\ last' = [op |-> op, args |-> args, opts |-> opts, seq |-> nops + 1,
              conn |-> isConnected, fail |-> fail, ret |-> out.ret,
              threw |-> out.threw, cmds |-> out.cmds,
              metrics |-> out.metrics]
  /\ isConnected' = (isConnected /\ ~(fail # 0 /\ Len(out.cmds) >= fail))
  /\ UNCHANGED <<httpVars, keyVars>>

\* a call returns (or throws) and leaves the service and the store changed
SvcCall(op, args, opts, fail, out) ==
  /\ nops < MaxOps
  /\ nops' = nops + 1
  /\ stats' = out.stats
  /\ store' = out.store
  /\ last' = [op |-> op, args |-> args, opts |-> opts, seq |-> nops + 1,
              conn |-> isConnected, fail |-> fail, ret |-> out.ret,
              threw |-> out.threw, cmds |-> out.cmds,
              metrics |-> out.metrics]
  /\ UNCHANGED <<isConnected, httpVars, keyVars>>

CallGet ==
  \E key \in SvcKeys, o \in SvcOptions, fail \in 0..1 :
    SvcCall("get", <<key>>, o, fail, get(isConnected, stats, store, key, o, fail))

CallSet ==
  \E key \in SvcKeys, v \in SvcValues, o \in SvcOptions, fail \in 0..1 :
    SvcCall("set", <<key, v>>, o, fail,
            set(isConnected, stats, store, key, v, o, fail))

CallDelete ==
  \E key \in SvcKeys, o \in SvcOptions, fail \in 0..1 :
    SvcCall("delete", <<key>>, o, fail,
            delete(isConnected, stats, store, key, o, fail))

CallExists ==
  \E key \in SvcKeys, o \in SvcOptions, fail \in 0..1 :
    SvcCall("exists", <<key>>, o, fail,
            exists(isConnected, stats, store, key, o, fail))

CallFlush ==
  \E pat \in SvcPatterns \cup {<<>>}, fail \in 0..2 :
    SvcCall("flush", <<pat>>, NoOpts, fail,
            flush(isConnected, stats, store, pat, fail))

CallInvalidatePattern ==
  \E pat \in SvcPatterns, fail \in 0..2 :
    SvcCall("invalidatePattern", <<pat>>, NoOpts, fail,
            invalidatePattern(isConnected, stats, store, pat, fail))

CallGetMultiple ==
  \E keys \in SvcKeyLists, o \in SvcOptions, fail \in 0..1 :
    SvcCall("getMultiple", keys, o, fail,
            getMultiple(isConnected, stats, store, keys, o, fail))

CallSetMultiple ==
  \E entries \in SvcEntryLists, o \in SvcOptions, fail \in 0..1 :
    SvcCall("setMultiple", entries, o, fail,
            setMultiple(isConnected, stats, store, entries, o, fail))

\* getStats is synchronous, sends nothing and changes nothing
CallGetStats ==
  SvcCall("getStats", <<>>, NoOpts, 0,
          Outcome(getStats(stats), stats, store, <<>>))

PingOutcomes ==
  {PingThrew("Connection failed"), PingThrew("timeout")}
    \cup {PingTook(ms) : ms \in {0, 99, 100, 250}}

\* healthCheck pings whatever the flag says; fail = 1 marks a ping that threw
CallHealthCheck ==
  \E ping \in PingOutcomes :
    SvcCall("healthCheck", <<ping>>, NoOpts, IF ping.threw THEN 1 ELSE 0,
            Outcome(healthCheck(ping), stats, store, <<"ping">>))

CallConnect ==
  \E fail \in 0..1 :
    SvcCall("connect", <<>>, NoOpts, fail, connect(stats, store, fail))

\* redis.on('connect') and redis.on('ready')
OnConnect ==
  /\ isConnected' = TRUE
  /\ UNCHANGED <<stats, store, last, nops, httpVars, keyVars>>

OnReady ==
  /\ isConnected' = TRUE
  /\ UNCHANGED <<stats, store, last, nops, httpVars, keyVars>>

\* an error handler that counts the error and leaves the flag as it is
OnErrorKeepsFlag ==
  /\ nops < MaxOps
  /\ nops' = nops + 1
  /\ isConnected' = isConnected
  /\ stats' = [stats EXCEPT !.errors = @ + 1]
  /\ UNCHANGED <<store, last, httpVars, keyVars>>

\* redis.on('error'); the error events of a behaviour are bounded
OnError ==
  /\ nops < MaxOps
  /\ nops' = nops + 1
  /\ isConnected' = FALSE
  /\ stats' = [stats EXCEPT !.errors = @ + 1]
  /\ UNCHANGED <<store, last, httpVars, keyVars>>

\* redis.on('reconnecting'): a log line
OnReconnecting ==
  UNCHANGED <<isConnected, stats, store, last, nops, httpVars, keyVars>>

\* the server drops an entry whose TTL has run out
Expire ==
  \E k \in DOMAIN store :
    /\ store' = [j \in DOMAIN store \ {k} |-> store[j]]
    /\ UNCHANGED <<isConnected, stats, last, nops, httpVars, keyVars>>

SvcNext ==
  \/ CallGet \/ CallSet \/ CallDelete \/ CallExists
  \/ CallFlush \/ CallInvalidatePattern
  \/ CallGetMultiple \/ CallSetMultiple
  \/ CallGetStats \/ CallHealthCheck \/ CallConnect
  \/ OnConnect \/ OnReady \/ OnError \/ OnReconnecting
  \/ Expire

----------------------------------------------------------------------------
(* LifeSpec: the life cycle of the service.  Every operation, on one key, *)
(* with resetStats and disconnect, and the events of the client           *)

CallResetStats ==
  SvcCall("resetStats", <<>>, NoOpts, 0,
          Outcome(Null, resetStats(stats), store, <<>>))

CallDisconnect ==
  LET out == disconnect(isConnected)
  IN  /\ nops < MaxOps
      /\ nops' = nops + 1
      /\ isConnected' = out.connected
      /\ last' = [op |-> "disconnect", args |-> <<>>, opts |-> NoOpts,
                  seq |-> nops + 1, conn |-> isConnected, fail |-> 0,
                  ret |-> Null, threw |-> FALSE, cmds |-> out.cmds,
                  metrics |-> <<>>]
      /\ UNCHANGED <<stats, store, httpVars, keyVars>>

LifeKey == <<"a">>

LifeValue == Num(<<"1">>)

LifeGet ==
  \E fail \in 0..1 :
    SvcCall("get", <<LifeKey>>, NoOpts, fail,
            get(isConnected, stats, store, LifeKey, NoOpts, fail))

LifeSet ==
  \E fail \in 0..1 :
    SvcCall("set", <<LifeKey, LifeValue>>, NoOpts, fail,
            set(isConnected, stats, store, LifeKey, LifeValue, NoOpts, fail))

LifeDelete ==
  \E fail \in 0..1 :
    SvcCall("delete", <<LifeKey>>, NoOpts, fail,
            delete(isConnected, stats, store, LifeKey, NoOpts, fail))

LifeExists ==
  \E fail \in 0..1 :
    SvcCall("exists", <<LifeKey>>, NoOpts, fail,
            exists(isConnected, stats, store, LifeKey, NoOpts, fail))

LifeFlush ==
  \E fail \in 0..1 :
    SvcCall("flush", <<(<<>>)>>, NoOpts, fail,
            flush(isConnected, stats, store, <<>>, fail))

LifeInvalidatePattern ==
  \E fail \in 0..2 :
    SvcCall("invalidatePattern", <<(<<"bug-bounty", "*">>)>>, NoOpts, fail,
            invalidatePattern(isConnected, stats, store,
                              <<"bug-bounty", "*">>, fail))

LifeGetMultiple ==
  \E fail \in 0..1 :
    SvcCall("getMultiple", <<LifeKey, <<"b">>>>, NoOpts, fail,
            getMultiple(isConnected, stats, store, <<LifeKey, <<"b">>>>,
                        NoOpts, fail))

LifeSetMultiple ==
  \E entries \in SvcEntryLists, fail \in 0..1 :
    SvcCall("setMultiple", entries, NoOpts, fail,
            setMultiple(isConnected, stats, store, entries, NoOpts, fail))

\* a healthCheck that answers unhealthy without a ping when the flag is false
LifeHealthCheckGated ==
  \E ping \in {PingThrew("Connection is closed."), PingTook(0)} :
    IF isConnected
    THEN SvcCall("healthCheck", <<ping>>, NoOpts, IF ping.threw THEN 1 ELSE 0,
                 Outcome(healthCheck(ping), stats, store, <<"ping">>))
    ELSE SvcCall("healthCheck", <<ping>>, NoOpts, 0,
                 Outcome([status |-> "unhealthy", error |-> "not connected"],
                         stats, store, <<>>))

LifeHealthCheck ==
  \E ping \in {PingThrew("Connection is closed."), PingTook(0)} :
    SvcCall("healthCheck", <<ping>>, NoOpts, IF ping.threw THEN 1 ELSE 0,
            Outcome(healthCheck(ping), stats, store, <<"ping">>))

LifeNext ==
  \/ LifeGet \/ LifeSet \/ LifeDelete \/ LifeExists
  \/ LifeFlush \/ LifeInvalidatePattern
  \/ LifeGetMultiple \/ LifeSetMultiple
  \/ CallGetStats \/ LifeHealthCheck \/ CallConnect
  \/ CallResetStats \/ CallDisconnect
  \/ OnConnect \/ OnReady \/ OnError \/ OnReconnecting
  \/ Expire

----------------------------------------------------------------------------
(* HTTP requests and the cache keys of the middleware configurations *)

\* a query is req.query: <<name, value>> pairs in insertion order
RECURSIVE QueryString(_)
\* new URLSearchParams(req.query).toString()
QueryString(q) ==
  IF q = <<>> THEN ""
  ELSE Head(q)[1] \o "=" \o Head(q)[2]
       \o (IF Tail(q) = <<>> THEN "" ELSE "&" \o QueryString(Tail(q)))

HasParam(q, name) == \E i \in 1..Len(q) : q[i][1] = name

Param(q, name) == q[CHOOSE i \in 1..Len(q) : q[i][1] = name][2]

\* user "": no req.user
defaultKeyGenerator(rq) ==
  LET userId == IF rq.user # "" THEN rq.user ELSE "anonymous"
      queryString == QueryString(rq.query)
      baseKey == <<rq.method, rq.path>>
  IN  IF queryString # "" THEN baseKey \o <<queryString, "user", userId>>
      ELSE baseKey \o <<"user", userId>>

ListParams == <<"status", "severity", "page", "limit", "sortBy", "sortOrder">>

\* JSON.stringify of the six picked parameters: the absent ones are left out
RECURSIVE PickedParams(_, _)
PickedParams(names, q) ==
  IF names = <<>> THEN ""
  ELSE (IF HasParam(q, Head(names))
        THEN Head(names) \o "=" \o Param(q, Head(names)) \o ";"
        ELSE "")
       \o PickedParams(Tail(names), q)

reportsListKey(rq) ==
  <<"reports", "list", "base64(" \o PickedParams(ListParams, rq.query) \o ")">>

reportStatsKey(rq) == <<"reports", "stats">>

reportDetailKey(rq) == <<"reports", "detail", rq.id>>

keyGenerator(rq) ==
  CASE rq.route = "list"   -> reportsListKey(rq)
    [] rq.route = "stats"  -> reportStatsKey(rq)
    [] rq.route = "detail" -> reportDetailKey(rq)
    [] OTHER               -> defaultKeyGenerator(rq)

\* parseInt(s) || dflt  (0 stands for NaN as well: both are falsy)
ParseIntOr(s, dflt) ==
  LET n == CASE s = "1" -> 1 [] s = "2" -> 2 [] s = "11" -> 11
             [] s = "101" -> 101 [] OTHER -> 0
  IN  IF n # 0 THEN n ELSE dflt

\* cc: the response's Cache-Control header ("" when it has none)
defaultCondition(rq, status, cc) ==
  status < 400 /\ cc # "no-cache"

\* a condition of the list route that does not look at the page
reportsListConditionAnyPage(rq, status, cc) ==
  LET limit == ParseIntOr(IF HasParam(rq.query, "limit")
                          THEN Param(rq.query, "limit") ELSE "", 20)
  IN  status = 200 /\ limit <= 100

reportsListCondition(rq, status, cc) ==
  LET page  == ParseIntOr(IF HasParam(rq.query, "page")
                          THEN Param(rq.query, "page") ELSE "", 1)
      limit == ParseIntOr(IF HasParam(rq.query, "limit")
                          THEN Param(rq.query, "limit") ELSE "", 20)
  IN  status = 200 /\ page <= 10 /\ limit <= 100

condition(rq, status, cc) ==
  IF rq.route = "list" THEN reportsListCondition(rq, status, cc)
  ELSE defaultCondition(rq, status, cc)

ttlOf(rq) ==
  CASE rq.route = "list"   -> 300
    [] rq.route = "stats"  -> 180
    [] rq.route = "detail" -> 600
    [] OTHER               -> 300

\* the options of a write that leaves the ttl out
ResponseOptsNoTtl(rq) == [ttl |-> 0, prefix |-> <<"response">>]

ResponseOpts(rq) == [ttl |-> ttlOf(rq), prefix |-> <<"response">>]

\* the patterns of invalidateReportsCache
invalidateReportsPatterns ==
  << <<"response", "reports", "*">>, <<"response", "reports", "stats">> >>

----------------------------------------------------------------------------
(* Requests through cacheMiddleware and invalidateCache *)

Reqs == 1..MaxReqs

ConcReqs == 1..MaxConc

NoInput == [route |-> "", method |-> "", path |-> "", id |-> "",
            query |-> <<>>, user |-> ""]

NoHeaders == [xcache |-> "", cc |-> "", ctype |-> ""]

\* pc: idle, lookup (awaiting cache.get), handler (next() was called), done
\* capture: which override of res.json the middleware installed
\* wb: the write-back cache.set(..) of the miss path
\* inv: the invalidatePattern calls of invalidateCache, one per pattern
\* after: the requests whose write-back had completed when this one arrived
IdleReq ==
  [pc |-> "idle", in |-> NoInput, key |-> <<>>, headers |-> NoHeaders,
   status |-> 0, body |-> Null, served |-> "none", nexts |-> 0,
   capture |-> "none", hstatus |-> 0, hbody |-> Null,
   entry |-> Null, wb |-> "none", inv |-> <<>>, after |-> {}]

HttpInit ==
  /\ req = [r \in Reqs |-> IdleReq]
  /\ db = 0
  /\ produced = {}

GetInput(route, path, id, query) ==
  [route |-> route, method |-> "GET", path |-> path, id |-> id,
   query |-> query, user |-> "u1"]

CreateInput ==
  [route |-> "create", method |-> "POST", path |-> "/reports", id |-> "",
   query |-> <<>>, user |-> "u1"]

HttpInputs ==
  { GetInput("list", "/reports", "", <<>>),
    GetInput("detail", "/reports/1", "1", <<>>),
    GetInput("medium", "/items", "", <<>>),
    CreateInput }

\* what the route handlers answer: the status, the Cache-Control header they
\* set, the data they hand to res.json, and the data base they leave
Answer(status, cc, body, d) ==
  [status |-> status, cc |-> cc, body |-> body, db |-> d]

HandlerAnswers(rq, d) ==
  CASE rq.route = "list" ->
         { Answer(200, cc, Num(Numeral(d)), d) : cc \in {"", "no-cache"} }
         \* a page that is not a number: the error handler may answer
         \* through the same res.json
         \cup (IF HasParam(rq.query, "page") /\ Param(rq.query, "page") = "x"
                THEN { Answer(400, "", Str(Chars(<<"n", "o">>)), d) }
                ELSE {})
    [] rq.route = "stats" -> { Answer(200, "", Num(Numeral(d)), d) }
    [] rq.route = "detail" ->
         IF d >= 1 THEN { Answer(200, "", Obj([id |-> rq.id]), d) }
         ELSE { Answer(404, "", Str(Chars(<<"n", "o">>)), d) }
    [] rq.route \in {"medium", "custom"} ->
         { Answer(200, cc, Str(Chars(<<"o", "k">>)), d) :
             cc \in {"", "no-cache", "no-store"} }
         \cup { Answer(404, "", Str(Chars(<<"n", "o">>)), d) }
    [] rq.route = "create" ->
         { Answer(400, "", Str(Chars(<<"n", "o">>)), d) }
         \cup (IF d < MaxDb
                THEN { Answer(201, "", Num(Numeral(d + 1)), d + 1) }
                ELSE {})

Truthy(v) ==
  CASE v.t = "null" -> FALSE
    [] v.t = "num"  -> v.v # <<"0">>
    [] v.t = "str"  -> v.v # Chars(<<>>)
    [] v.t = "obj"  -> TRUE

Is2xx(status) == status >= 200 /\ status < 300

\* the skipCache option: () => false unless a configuration gives one; the
\* route "custom" stands for a cacheMiddleware configured to skip the
\* requests that carry the parameter fresh
skipCache(rq) == rq.route = "custom" /\ HasParam(rq.query, "fresh")

\* a bypass that marks the response as a miss and captures res.json
bypassAsMiss(rq) ==
  [rq EXCEPT !.pc = "handler",
             !.headers = [@ EXCEPT !.xcache = "MISS"],
             !.capture = "cache",
             !.nexts = @ + 1]

\* lines 43-45: return next()
bypass(rq) == [rq EXCEPT !.pc = "handler", !.nexts = @ + 1]

\* a hit path that sends the whole stored entry as the body
replayWholeEntry(rq, cached) ==
  [rq EXCEPT !.pc = "done",
             !.headers = [xcache |-> "HIT",
                          cc |-> "max-age=" \o ToString(ttlOf(rq.in)),
                          ctype |-> "application/json"],
             !.status = cached.v.statusCode,
             !.body = cached,
             !.served = "cache"]

\* a hit path that sends the stored response and goes on to next()
replayThenNext(rq, cached) ==
  [rq EXCEPT !.pc = "handler",
             !.headers = [xcache |-> "HIT",
                          cc |-> "max-age=" \o ToString(ttlOf(rq.in)),
                          ctype |-> "application/json"],
             !.status = cached.v.statusCode,
             !.body = cached.v.data,
             !.served = "cache",
             !.nexts = @ + 1]

\* lines 57-75: the stored response is replayed; next() is not called
replay(rq, cached) ==
  [rq EXCEPT !.pc = "done",
             !.headers = [xcache |-> "HIT",
                          cc |-> "max-age=" \o ToString(ttlOf(rq.in)),
                          ctype |-> IF cached.v.headers.ctype # ""
                                    THEN cached.v.headers.ctype
                                    ELSE "application/json"],
             !.status = cached.v.statusCode,
             !.body = cached.v.data,
             !.served = "cache"]

\* lines 77-115: X-Cache: MISS, res.json overridden, next()
missPath(rq) ==
  [rq EXCEPT !.pc = "handler",
             !.headers = [@ EXCEPT !.xcache = "MISS"],
             !.capture = "cache",
             !.nexts = @ + 1]

\* a catch block that logs the error and ends without calling next()
catchPathSwallowing(rq) == [rq EXCEPT !.pc = "done"]

\* lines 116-120: the catch block
catchPath(rq) ==
  [rq EXCEPT !.pc = "handler", !.nexts = @ + 1]

\* what cacheMiddleware does once `await cache.get(..)` has settled with out
afterLookup(rq, out) ==
  IF out.threw THEN catchPath(rq)
  ELSE IF Truthy(out.ret)
  THEN IF out.ret.t = "obj" /\ "headers" \in DOMAIN out.ret.v
       THEN replay(rq, out.ret)
       ELSE catchPath(rq)   \* Object.entries(undefined) throws
  ELSE missPath(rq)

\* extractCacheableHeaders(res, []): Content-Type, when it is set already
extractCacheableHeaders(headers) == [ctype |-> headers.ctype]

\* lines 82-113: the res.json of the miss path, called by the handler with
\* answer a; the write-back is started and not awaited
cacheJson(rq, a, connected) ==
  LET cacheable == condition(rq.in, a.status, a.cc) /\ Is2xx(a.status)
      responseToCache ==
        Obj([data |-> a.body,
             headers |-> extractCacheableHeaders(rq.headers),
             statusCode |-> a.status])
  IN  [rq EXCEPT !.entry = IF cacheable THEN responseToCache ELSE @,
                 !.wb = IF cacheable
                        THEN (IF connected THEN "pending" ELSE "off")
                        ELSE @]

\* a res.json of invalidateCache that does not look at the status
invalidateJsonAnyStatus(rq, a, connected) ==
  [rq EXCEPT !.inv =
     [i \in 1..Len(invalidateReportsPatterns) |->
        [pc |-> IF connected THEN "scan" ELSE "off", count |-> 0]]]

\* lines 201-223: the res.json of invalidateCache
invalidateJson(rq, a, connected) ==
  IF Is2xx(a.status)
  THEN [rq EXCEPT !.inv =
          [i \in 1..Len(invalidateReportsPatterns) |->
             [pc |-> IF connected THEN "scan" ELSE "off", count |-> 0]]]
  ELSE rq

\* originalJson.call(this, data): the response goes out
originalJson(rq, a) ==
  [rq EXCEPT !.pc = "done",
             !.headers = [@ EXCEPT !.cc = a.cc, !.ctype = "application/json"],
             !.status = a.status,
             !.body = a.body,
             !.served = "handler"]

\* a res.json that holds the response back while the store call it started
\* is outstanding
resJsonAwaiting(rq, a, connected) ==
  CASE rq.capture = "cache" ->
         LET c == cacheJson(rq, a, connected)
         IN  IF c.wb = "pending" THEN c ELSE originalJson(c, a)
    [] rq.capture = "invalidate" ->
         LET c == invalidateJson(rq, a, connected)
         IN  IF \E i \in 1..Len(c.inv) : c.inv[i].pc = "scan" THEN c
             ELSE originalJson(c, a)
    [] OTHER -> originalJson(rq, a)

\* res.json(data) as the handler finds it
resJson(rq, a, connected) ==
  CASE rq.capture = "cache" -> originalJson(cacheJson(rq, a, connected), a)
    [] rq.capture = "invalidate" ->
         originalJson(invalidateJson(rq, a, connected), a)
    [] OTHER -> originalJson(rq, a)

----------------------------------------------------------------------------
(* Spec: requests running concurrently on the event loop.  Every await of  *)
(* a store call is a point where other requests run; the store call takes  *)
(* effect when its reply is delivered.                                     *)

Pending(rq) ==
  \/ rq.pc \in {"lookup", "handler"}
  \/ rq.wb = "pending"
  \/ \E i \in 1..Len(rq.inv) : rq.inv[i].pc = "scan"

\* requests take the slots in order
MayArrive(r) ==
  /\ req[r].pc = "idle"
  /\ IF r = 1 THEN TRUE ELSE req[r - 1].pc # "idle"

HttpFrame == UNCHANGED <<last, nops, keyVars>>

\* a GET reaches cacheMiddleware (lines 41-55): the key is computed and
\* cache.get is called; disconnected, it has answered null already
ArriveCached(r, inp) ==
  /\ MayArrive(r)
  /\ inp.method = "GET"
  /\ ~skipCache(inp)
  /\ LET rq == [IdleReq EXCEPT
                 !.in = inp,
                 !.key = keyGenerator(inp),
                 !.after = {q \in Reqs : req[q].wb = "stored"}]
         out == get(FALSE, stats, store, rq.key, ResponseOpts(inp), 0)
     IN  IF isConnected
         THEN /\ req' = [req EXCEPT ![r] = [rq EXCEPT !.pc = "lookup"]]
              /\ UNCHANGED stats
         ELSE /\ req' = [req EXCEPT ![r] = afterLookup(rq, out)]
              /\ stats' = out.stats
  /\ UNCHANGED <<isConnected, store, db, produced>>
  /\ HttpFrame

\* a request that is not a GET, or that skipCache picks, reaches
\* cacheMiddleware (lines 41-45)
ArriveBypass(r, inp) ==
  /\ MayArrive(r)
  /\ (inp.method # "GET" \/ skipCache(inp))
  /\ req' = [req EXCEPT ![r] = bypass([IdleReq EXCEPT !.in = inp])]
  /\ UNCHANGED <<svcVars, db, produced>>
  /\ HttpFrame

\* the reply of redis.get arrives and cacheMiddleware goes on (lines 57-115)
LookupReply(r, fail) ==
  /\ req[r].pc = "lookup"
  /\ LET out == get(TRUE, stats, store, req[r].key, ResponseOpts(req[r].in),
                    fail)
     IN  /\ req' = [req EXCEPT ![r] = afterLookup(req[r], out)]
         /\ stats' = out.stats
  /\ UNCHANGED <<isConnected, store, db, produced>>
  /\ HttpFrame

\* a mutating request reaches invalidateCache (lines 197-226)
ArriveMutating(r, inp) ==
  /\ MayArrive(r)
  /\ inp.method # "GET"
  /\ req' = [req EXCEPT ![r] = [IdleReq EXCEPT !.in = inp,
                                               !.pc = "handler",
                                               !.capture = "invalidate",
                                               !.nexts = 1]]
  /\ UNCHANGED <<svcVars, db, produced>>
  /\ HttpFrame

\* the route handler runs and calls res.json
Handle(r) ==
  /\ req[r].pc = "handler"
  /\ \E a \in HandlerAnswers(req[r].in, db) :
       /\ req' = [req EXCEPT ![r] =
                    [resJson(req[r], a, isConnected)
                       EXCEPT !.hstatus = a.status, !.hbody = a.body]]
       /\ db' = a.db
       /\ produced' = IF Is2xx(a.status)
                      THEN produced \cup {<<req[r].in.path, a.status, a.body>>}
                      ELSE produced
  /\ UNCHANGED svcVars
  /\ HttpFrame

\* the reply of the write-back's redis.setex arrives (lines 92-102)
WriteBackReply(r, fail) ==
  /\ req[r].wb = "pending"
  /\ LET out == set(TRUE, stats, store, req[r].key, req[r].entry,
                    ResponseOpts(req[r].in), fail)
     IN  /\ stats' = out.stats
         /\ store' = out.store
         /\ req' = [req EXCEPT ![r].wb =
                      IF out.threw THEN "rejected"
                      ELSE IF out.ret THEN "stored" ELSE "failed"]
  /\ UNCHANGED <<isConnected, db, produced>>
  /\ HttpFrame

\* an invalidatePattern call of invalidateCache runs against the store
\* (lines 204-218; part_007 lines 317-330): keys(pattern), then del(...keys)
InvalidateReply(r, i, fail) ==
  /\ i \in 1..Len(req[r].inv)
  /\ req[r].inv[i].pc = "scan"
  /\ LET out == invalidatePattern(TRUE, stats, store,
                                  invalidateReportsPatterns[i], fail)
     IN  /\ stats' = out.stats
         /\ store' = out.store
         /\ req' = [req EXCEPT ![r].inv[i] =
                      [pc |-> IF out.threw THEN "rejected"
                              ELSE IF fail # 0 /\ Len(out.cmds) >= fail
                              THEN "failed" ELSE "done",
                       count |-> out.ret]]
  /\ UNCHANGED <<isConnected, db, produced>>
  /\ HttpFrame

HttpNext ==
  \/ \E r \in ConcReqs, inp \in HttpInputs : ArriveCached(r, inp)
  \/ \E r \in ConcReqs, inp \in HttpInputs : ArriveMutating(r, inp)
  \/ \E r \in ConcReqs, fail \in 0..1 : LookupReply(r, fail)
  \/ \E r \in ConcReqs : Handle(r)
  \/ \E r \in ConcReqs, fail \in 0..1 : WriteBackReply(r, fail)
  \/ \E r \in ConcReqs, i \in 1..2, fail \in 0..1 : InvalidateReply(r, i, fail)
  \/ OnConnect
  \/ OnError
  \/ Expire

----------------------------------------------------------------------------
(* SeqSpec: a sequential run against a healthy store.  A request arrives   *)
(* when the client is connected and nothing of the earlier requests is     *)
(* outstanding; no store call fails and no error event occurs.             *)

Quiescent == \A r \in Reqs : ~Pending(req[r])

SeqInputs ==
  HttpInputs
  \cup { GetInput("stats", "/reports/stats", "", <<>>),
         GetInput("list", "/reports", "", << <<"page", "2">> >>) }

SeqArriveCached(r, inp) ==
  /\ isConnected
  /\ Quiescent
  /\ ArriveCached(r, inp)

SeqArriveMutating(r, inp) ==
  /\ isConnected
  /\ Quiescent
  /\ ArriveMutating(r, inp)

SeqNext ==
  \/ \E r \in Reqs, inp \in SeqInputs : SeqArriveCached(r, inp)
  \/ \E r \in Reqs, inp \in SeqInputs : SeqArriveMutating(r, inp)
  \/ \E r \in Reqs : LookupReply(r, 0)
  \/ \E r \in Reqs : Handle(r)
  \/ \E r \in Reqs : WriteBackReply(r, 0)
  \/ \E r \in Reqs, i \in 1..2 : InvalidateReply(r, i, 0)
  \/ OnConnect
  \/ Expire

----------------------------------------------------------------------------
(* DownSpec: the client never connects (the flag stays false); requests   *)
(* arrive and are handled, error events of the client may occur           *)

DownNext ==
  \/ \E r \in Reqs, inp \in HttpInputs : ArriveCached(r, inp)
  \/ \E r \in Reqs, inp \in HttpInputs : ArriveMutating(r, inp)
  \/ \E r \in Reqs : Handle(r)
  \/ OnError

----------------------------------------------------------------------------
(* HealthySpec: requests running concurrently against a healthy store:    *)
(* they arrive once the client is connected, no store call fails and no   *)
(* error event occurs                                                     *)

HealthyNext ==
  \/ \E r \in Reqs, inp \in HttpInputs :
       isConnected /\ ArriveCached(r, inp)
  \/ \E r \in Reqs, inp \in HttpInputs :
       isConnected /\ ArriveMutating(r, inp)
  \/ \E r \in Reqs : LookupReply(r, 0)
  \/ \E r \in Reqs : Handle(r)
  \/ \E r \in Reqs : WriteBackReply(r, 0)
  \/ \E r \in Reqs, i \in 1..2 : InvalidateReply(r, i, 0)
  \/ OnConnect
  \/ Expire

----------------------------------------------------------------------------
(* BypassSpec: requests to a route whose cacheMiddleware has a skipCache  *)
(* option: POSTs, GETs the option picks and GETs it does not pick, with   *)
(* the store connected or not and store calls that may fail               *)

BypassInputs ==
  { [route |-> "custom", method |-> "POST", path |-> "/items", id |-> "",
     query |-> <<>>, user |-> "u1"],
    GetInput("custom", "/items", "", << <<"fresh", "1">> >>),
    GetInput("custom", "/items", "", <<>>) }

BypassNext ==
  \/ \E r \in ConcReqs, inp \in BypassInputs : ArriveCached(r, inp)
  \/ \E r \in ConcReqs, inp \in BypassInputs : ArriveBypass(r, inp)
  \/ \E r \in ConcReqs, fail \in 0..1 : LookupReply(r, fail)
  \/ \E r \in ConcReqs : Handle(r)
  \/ \E r \in ConcReqs, fail \in 0..1 : WriteBackReply(r, fail)
  \/ OnConnect
  \/ OnError
  \/ Expire

----------------------------------------------------------------------------
(* LookupSpec: GETs of one route, concurrently, while another caller of   *)
(* the service sets values of its own under the route's response key, so  *)
(* that a lookup can find a value that is not a stored response           *)

LookupInputs == { GetInput("medium", "/items", "", <<>>) }

ForeignValues ==
  { Num(<<"1">>), Str(Chars(<<"a">>)), Obj([id |-> Num(<<"1">>)]) }

ForeignSet ==
  \E inp \in LookupInputs, v \in ForeignValues :
    SvcCall("set", <<keyGenerator(inp), v>>, ResponseOpts(inp), 0,
            set(isConnected, stats, store, keyGenerator(inp), v,
                ResponseOpts(inp), 0))

LookupNext ==
  \/ \E r \in ConcReqs, inp \in LookupInputs : ArriveCached(r, inp)
  \/ \E r \in ConcReqs, fail \in 0..1 : LookupReply(r, fail)
  \/ \E r \in ConcReqs : Handle(r)
  \/ \E r \in ConcReqs, fail \in 0..1 : WriteBackReply(r, fail)
  \/ ForeignSet
  \/ OnConnect
  \/ OnError
  \/ Expire

----------------------------------------------------------------------------
(* ListSpec: GETs of the list route, one after the other against a        *)
(* healthy store, with pages and limits inside and outside the standard   *)
(* pagination                                                             *)

ListQueries ==
  { <<>>,
    << <<"page", "2">> >>,
    << <<"page", "11">> >>,
    << <<"page", "x">> >>,
    << <<"limit", "101">> >>,
    << <<"page", "2">>, <<"limit", "101">> >> }

ListInputs == { GetInput("list", "/reports", "", q) : q \in ListQueries }

ListNext ==
  \/ \E r \in Reqs, inp \in ListInputs : SeqArriveCached(r, inp)
  \/ \E r \in Reqs : LookupReply(r, 0)
  \/ \E r \in Reqs : Handle(r)
  \/ \E r \in Reqs : WriteBackReply(r, 0)
  \/ OnConnect

----------------------------------------------------------------------------
(* TtlSpec: the sequential run of SeqSpec, on two request slots, with     *)
(* direct calls of set and setMultiple on the same service in between     *)

TtlCallSet ==
  \E o \in SvcOptions :
    SvcCall("set", <<(<<"a">>), Num(<<"1">>)>>, o, 0,
            set(isConnected, stats, store, <<"a">>, Num(<<"1">>), o, 0))

TtlCallSetMultiple ==
  \E entries \in SvcEntryLists, o \in SvcOptions :
    SvcCall("setMultiple", entries, o, 0,
            setMultiple(isConnected, stats, store, entries, o, 0))

TtlNext ==
  \/ TtlCallSet
  \/ TtlCallSetMultiple
  \/ \E r \in ConcReqs, inp \in SeqInputs : SeqArriveCached(r, inp)
  \/ \E r \in ConcReqs, inp \in SeqInputs : SeqArriveMutating(r, inp)
  \/ \E r \in ConcReqs : LookupReply(r, 0)
  \/ \E r \in ConcReqs : Handle(r)
  \/ \E r \in ConcReqs : WriteBackReply(r, 0)
  \/ \E r \in ConcReqs, i \in 1..2 : InvalidateReply(r, i, 0)
  \/ OnConnect
  \/ Expire

----------------------------------------------------------------------------
(* KeySpec: the key generators of the middleware configurations applied *)
(* to two requests of the same route                                    *)

KeyNames == {"page", "limit", "sort"}

KeyValues == {"1", "2"}

KeyPairs == {<<n, v>> : n \in KeyNames, v \in KeyValues}

\* req.query: at most MaxParams parameters, each name once
KeyQueries ==
  { q \in UNION {[1..n -> KeyPairs] : n \in 0..MaxParams} :
      \A i, j \in DOMAIN q : i # j => q[i][1] # q[j][1] }

\* the routes, each with the path and the req.params.id of its requests:
\* "medium" stands for a route behind the default key generator
KeyRoutes ==
  { [route |-> "medium", path |-> "/items", id |-> ""],
    [route |-> "list", path |-> "/reports", id |-> ""],
    [route |-> "stats", path |-> "/reports/stats", id |-> ""],
    [route |-> "detail", path |-> "/reports/1", id |-> "1"] }

\* user "": a request without req.user
KeyUsers == {"u1", "u2", ""}

KeyRequests ==
  { [GetInput(rt.route, rt.path, rt.id, q) EXCEPT !.user = u] :
      rt \in KeyRoutes, q \in KeyQueries, u \in KeyUsers }

KeyInit ==
  /\ SvcInit
  /\ HttpInit
  /\ keyIn \in {p \in KeyRequests \X KeyRequests : p[1].route = p[2].route}
  /\ keyOut = <<>>

GenerateKeys ==
  /\ keyIn # <<>>
  /\ keyOut = <<>>
  /\ keyOut' = <<keyGenerator(keyIn[1]), keyGenerator(keyIn[2])>>
  /\ UNCHANGED <<svcVars, last, nops, httpVars, keyIn>>

KeyNext == GenerateKeys

----------------------------------------------------------------------------
(* The specifications *)

KeyIdle == keyIn = <<>> /\ keyOut = <<>>

Init == SvcInit /\ HttpInit /\ KeyIdle

Next == HttpNext

Spec == Init /\ [][Next]_vars

\* the handlers answer; nothing is assumed of the store's replies
FairSpec == Spec /\ WF_vars(\E r \in ConcReqs : Handle(r))

SvcSpec == Init /\ [][SvcNext]_vars

LifeSpec == Init /\ [][LifeNext]_vars

SeqSpec == Init /\ [][SeqNext]_vars

KeySpec == KeyInit /\ [][KeyNext]_vars

DownSpec == Init /\ [][DownNext]_vars

TtlSpec == Init /\ [][TtlNext]_vars

HealthySpec == Init /\ [][HealthyNext]_vars

BypassSpec == Init /\ [][BypassNext]_vars

LookupSpec == Init /\ [][LookupNext]_vars

ListSpec == Init /\ [][ListNext]_vars

----------------------------------------------------------------------------
(* Claims about CacheService, under SvcSpec *)

\* the value a call returns when it falls back
SafeDefault(c) ==
  CASE c.op = "get" -> c.ret = Null
    [] c.op \in {"set", "delete", "exists", "flush", "setMultiple"} ->
         c.ret = FALSE
    [] c.op = "invalidatePattern" -> c.ret = 0
    [] c.op = "getMultiple" -> c.ret = [i \in 1..Len(c.args) |-> Null]

\* the operations that run under executeWithFallback
FallbackOps ==
  {"get", "set", "delete", "exists", "flush", "invalidatePattern",
   "getMultiple", "setMultiple"}

\* a store call of the call c threw
StoreCallThrew(c) ==
  c.op \in FallbackOps /\ c.conn /\ c.fail # 0 /\ Len(c.cmds) >= c.fail

\* C1: a call made while the connected flag is false does not throw, sends no
\* command to the client, leaves the store as it is and returns its safe
\* default (null, false, 0, or one null per key)
C1_FailOpenWhenDisconnected ==
  [][ (last'.seq # last.seq /\ last'.op \in FallbackOps /\ ~isConnected)
      => /\ ~last'.threw
         /\ last'.cmds = <<>>
         /\ store' = store
         /\ SafeDefault(last') ]_vars

\* a getMultiple of two keys fell back while the store held entries
C1_Witness ==
  /\ last.op = "getMultiple"
  /\ ~last.conn
  /\ Len(last.args) = 2
  /\ DOMAIN store # {}

\* C2: a call made while connected whose store call throws returns its safe
\* default, does not throw, and counts exactly one error
C2_FailOpenWhenStoreThrows ==
  [][ (last'.seq # last.seq /\ StoreCallThrew(last'))
      => /\ ~last'.threw
         /\ SafeDefault(last')
         /\ stats'.errors = stats.errors + 1 ]_vars

\* two gets in a row whose store call threw: errors = 2
C2_Witness ==
  /\ nops = 2
  /\ last.op = "get"
  /\ StoreCallThrew(last)
  /\ stats.misses = 2
  /\ stats.errors = 2

\* C9: set(k, v) followed by get(k), both served by the store and the entry
\* still there, returns a value equal to v
C9_RoundTrip ==
  [][ ( /\ last.op = "set"
        /\ last.ret = TRUE
        /\ last'.seq # last.seq
        /\ last'.op = "get"
        /\ last'.args[1] = last.args[1]
        /\ last'.opts = last.opts
        /\ last'.conn
        /\ last'.fail = 0
        /\ Physical(buildKey(last.args[1], last.opts.prefix)) \in DOMAIN store )
      => last'.ret = last.args[2] ]_vars

----------------------------------------------------------------------------
(* Claims about cacheMiddleware and invalidateCache *)

\* the name under which the store holds the response of a request
EntryKey(rq) == Physical(buildKey(rq.key, <<"response">>))

\* the ttl each route's middleware is configured with
RouteTtl(route) ==
  CASE route = "list" -> 300
    [] route = "stats" -> 180
    [] route = "detail" -> 600
    [] route = "medium" -> 300

RouteMaxAge(route) ==
  CASE route = "list" -> "max-age=300"
    [] route = "stats" -> "max-age=180"
    [] route = "detail" -> "max-age=600"
    [] route = "medium" -> "max-age=300"

\* C3: whatever the store does, a response that reached the client carries
\* the status and the body the handler produced for that request, or, on a
\* hit, a 2xx status and body the handler of that path produced earlier
C3_ResponseIsTheHandlers ==
  \A r \in Reqs :
    req[r].pc = "done" =>
      \/ /\ req[r].served = "handler"
         /\ req[r].status = req[r].hstatus
         /\ req[r].body = req[r].hbody
      \/ /\ req[r].served = "cache"
         /\ Is2xx(req[r].status)
         /\ <<req[r].in.path, req[r].status, req[r].body>> \in produced

\* one request answered from the cache and one by its handler, after a store
\* failure was counted
C3_Witness ==
  \E r1, r2 \in Reqs :
    /\ req[r1].pc = "done" /\ req[r1].served = "cache"
    /\ req[r2].pc = "done" /\ req[r2].served = "handler"
    /\ stats.errors > 0

\* C6: when the lookup of a request finds an entry (the service counts a
\* hit), the response is sent at once with X-Cache: HIT, Cache-Control:
\* max-age=<ttl of the route>, the stored headers, the stored status and the
\* stored body, and next() is not called: the handler does not run
C6_HitReplaysStoredResponse ==
  [][ \A r \in Reqs :
        ( /\ req[r].pc = "lookup"
          /\ req'[r].pc # "lookup"
          /\ stats'.hits = stats.hits + 1 )
        => LET e == JSONparse(store[EntryKey(req[r])].val).val.v
           IN  /\ req'[r].pc = "done"
               /\ req'[r].headers.xcache = "HIT"
               /\ req'[r].headers.cc = RouteMaxAge(req[r].in.route)
               /\ (e.headers.ctype # ""
                     => req'[r].headers.ctype = e.headers.ctype)
               /\ req'[r].status = e.statusCode
               /\ req'[r].body = e.data
               /\ req'[r].nexts = 0
               /\ req'[r].hstatus = 0 ]_vars

\* a request answered by a hit
C6_Witness ==
  \E r \in Reqs :
    /\ req[r].pc = "done"
    /\ req[r].served = "cache"
    /\ req[r].headers.xcache = "HIT"
    /\ req[r].status = 200
    /\ stats.hits = 1

\* the write-back of request r has reached the store and its entry is
\* still the one the store holds
HoldsEntryOf(r) ==
  /\ req[r].wb = "stored"
  /\ EntryKey(req[r]) \in DOMAIN store
  /\ store[EntryKey(req[r])].val = serialize(req[r].entry)

\* a write-back the store accepts leaves the handler's 2xx response of a
\* missed GET under the request's key with the ttl of the route
StoredOnWriteBack ==
  \A r \in Reqs :
    (req[r].wb = "pending" /\ req'[r].wb = "stored")
    => /\ req[r].headers.xcache = "MISS"
       /\ Is2xx(req[r].hstatus)
       /\ EntryKey(req[r]) \in DOMAIN store'
       /\ store'[EntryKey(req[r])].ttl = RouteTtl(req[r].in.route)
       /\ store'[EntryKey(req[r])].val.k = "objtext"
       /\ store'[EntryKey(req[r])].val.s.statusCode = req[r].hstatus
       /\ store'[EntryKey(req[r])].val.s.data = req[r].hbody

\* the response of request r2 equals the first response of r1, as a hit
HitLike(r2, r1) ==
  /\ req'[r2].headers.xcache = "HIT"
  /\ req'[r2].status = req[r1].status
  /\ req'[r2].body = req[r1].body

C8_OnlyCacheableStored ==
  \A r \in Reqs :
    req[r].wb = "stored"
    => /\ Is2xx(req[r].entry.v.statusCode)
       /\ req[r].headers.cc \notin {"no-store", "no-cache"}

\* C4: every request that entered the middleware gets its response, with
\* nothing assumed of the store's replies
C4_EveryRequestAnswered ==
  \A r \in Reqs : (req[r].pc # "idle") ~> (req[r].pc = "done")

\* request r follows a successful mutation, and an earlier request r0 left
\* the response of the same reports key in the cache
AfterMutationOfCached(r, r0) ==
  /\ r0 < r - 1
  /\ req[r].in.route \in {"list", "stats", "detail"}
  /\ req[r - 1].in.method = "POST"
  /\ req[r - 1].pc = "done"
  /\ Is2xx(req[r - 1].status)
  /\ req[r0].wb = "stored"
  /\ req[r0].key = req[r].key

\* C5: in a sequential run with a healthy store, the GET that follows a
\* successful mutation is a MISS for every reports response cached before,
\* and the count it answers is the one after the mutation
C5_MutationInvalidates ==
  [][ \A r, r0 \in Reqs :
        /\ ( /\ AfterMutationOfCached(r, r0)
             /\ req[r].pc = "lookup"
             /\ req'[r].pc # "lookup" )
           => req'[r].headers.xcache = "MISS"
        /\ ( /\ AfterMutationOfCached(r, r0)
             /\ req[r].pc # "done"
             /\ req'[r].pc = "done"
             /\ req[r].in.route \in {"list", "stats"} )
           => req'[r].body = Num(Numeral(db')) ]_vars

\* the query parameters of a request as a set of name/value pairs
ParamSet(rq) == {rq.query[i] : i \in DOMAIN rq.query}

\* C10: two requests with the same method, path, caller and set of query
\* parameters get the same key from the default key generator
C10_KeyIgnoresParameterOrder ==
  ( /\ keyOut # <<>>
    /\ keyIn[1].route = "medium"
    /\ keyIn[1].method = keyIn[2].method
    /\ keyIn[1].path = keyIn[2].path
    /\ keyIn[1].user = keyIn[2].user
    /\ ParamSet(keyIn[1]) = ParamSet(keyIn[2]) )
  => keyOut[1] = keyOut[2]

\* C11: two GET requests to the same path whose query parameter sets differ
\* get different cache keys, under the default key generator and under the
\* key generator of reportsListCache
C11_DifferentQueriesDifferentKeys ==
  ( /\ keyOut # <<>>
    /\ keyIn[1].route \in {"medium", "list"}
    /\ keyIn[1].path = keyIn[2].path
    /\ ParamSet(keyIn[1]) # ParamSet(keyIn[2]) )
  => keyOut[1] # keyOut[2]

\* C12: under every configuration (default generator, reportsListCache,
\* reportStatsCache, reportDetailCache) two requests that differ only in
\* the caller get different cache keys
C12_DifferentCallersDifferentKeys ==
  ( /\ keyOut # <<>>
    /\ [keyIn[1] EXCEPT !.user = ""] = [keyIn[2] EXCEPT !.user = ""]
    /\ keyIn[1].user # ""
    /\ keyIn[2].user # ""
    /\ keyIn[1].user # keyIn[2].user )
  => keyOut[1] # keyOut[2]

\* C13: with the store disconnected, a GET through cacheMiddleware is
\* answered by its handler, with the handler's status and body, and the
\* response has no X-Cache header
C13_NoCacheHeaderWhenDisconnected ==
  \A r \in Reqs :
    (req[r].pc = "done" /\ req[r].in.method = "GET")
    => /\ req[r].served = "handler"
       /\ req[r].status = req[r].hstatus
       /\ req[r].body = req[r].hbody
       /\ req[r].headers.xcache = ""

\* C14: a GET on a cached route whose handler answers with an error status
\* writes nothing to the cache and its response has no X-Cache header
C14_ErrorResponseNotCached ==
  \A r \in Reqs :
    ( /\ req[r].pc = "done"
      /\ req[r].in.method = "GET"
      /\ req[r].served = "handler"
      /\ req[r].hstatus >= 400 )
    => /\ req[r].wb = "none"
       /\ req[r].headers.xcache = ""

\* the keys the store holds that match a pattern
Matching(pattern) == {k \in DOMAIN store : GlobMatch(pattern, k)}

\* the step is a call of op that found the client connected and none of
\* whose store calls threw
ServedCall(op) ==
  /\ last'.seq # last.seq
  /\ last'.op = op
  /\ last'.conn
  /\ ~StoreCallThrew(last')

\* C15: invalidatePattern(pattern) on a connected store deletes exactly the
\* keys that match the pattern when it scans, returns their number and
\* leaves the other keys and their values as they are; when no key matches
\* it returns 0 and sends no delete
C15_InvalidatePatternDeletesMatches ==
  [][ ServedCall("invalidatePattern")
      => LET matched == Matching(last'.args[1])
         IN  /\ DOMAIN store' = DOMAIN store \ matched
             /\ \A k \in DOMAIN store' : store'[k] = store[k]
             /\ last'.ret = Cardinality(matched)
             /\ matched = {}
                  => (last'.ret = 0 /\ last'.cmds = <<"keys">>) ]_vars

\* C16: a request through invalidateCache has one invalidatePattern call per
\* declared pattern once its handler has emitted a response with a status
\* in 200..299, and none before that or for any other status; a call that
\* has ended is not made again, and a response with another status leaves
\* the store as it is
C16_InvalidationOncePerPatternOn2xx ==
  [][ \A r \in Reqs :
        req'[r].capture = "invalidate"
        => /\ req'[r].pc # "done" => req'[r].inv = <<>>
           /\ req'[r].pc = "done"
                => IF Is2xx(req'[r].hstatus)
                   THEN Len(req'[r].inv) = Len(invalidateReportsPatterns)
                   ELSE req'[r].inv = <<>>
           /\ (req[r].pc = "handler" /\ req'[r].pc = "done"
                 /\ ~Is2xx(req'[r].hstatus))
                => store' = store
           /\ \A i \in DOMAIN req[r].inv :
                req[r].inv[i].pc # "scan" => req'[r].inv[i] = req[r].inv[i]
    ]_vars

\* one mutation answered 201 whose two invalidations have run, and one
\* answered 400 with none
C16_Witness ==
  \E r1, r2 \in Reqs :
    /\ req[r1].capture = "invalidate" /\ req[r1].status = 201
    /\ Len(req[r1].inv) = 2
    /\ \A i \in 1..2 : req[r1].inv[i].pc = "done"
    /\ req[r2].capture = "invalidate" /\ req[r2].status = 400
    /\ req[r2].inv = <<>>

\* C17: getMultiple(keys) after setMultiple(entries), both served by the
\* store and under the same prefix, returns one entry per key, in order: the
\* value the entries gave the key while its entry is in the store (a string
\* as the same string), null for a key the store does not hold
C17_GetMultipleReturnsStoredValues ==
  [][ ( /\ last.op = "setMultiple"
        /\ last.ret = TRUE
        /\ ServedCall("getMultiple")
        /\ last'.opts.prefix = last.opts.prefix )
      => /\ Len(last'.ret) = Len(last'.args)
         /\ \A i \in 1..Len(last'.args) :
              LET k == last'.args[i]
                  pk == Physical(buildKey(k, last'.opts.prefix))
              IN  IF pk \notin DOMAIN store THEN last'.ret[i] = Null
                  ELSE \A j \in 1..Len(last.args) :
                         last.args[j].key = k
                         => last'.ret[i] = last.args[j].value ]_vars

\* C18: in every reachable state the hit rate getStats returns is
\* hits / (hits + misses) * 100 rounded to the nearest hundredth when
\* hits + misses > 0 and 0 when both are 0, lies in 0..100, and the five
\* counters are returned as they are
C18_HitRateRoundedToTwoDecimals ==
  LET s == getStats(stats)
      H == stats.hits
      T == stats.hits + stats.misses
      d == 100 * 100 * H - s.hitRate * T
  IN  /\ T > 0 => 2 * (IF d < 0 THEN -d ELSE d) <= T
      /\ T = 0 => s.hitRate = 0
      /\ s.hitRate \in 0..(100 * 100)
      /\ s.hits = stats.hits /\ s.misses = stats.misses
      /\ s.sets = stats.sets /\ s.deletes = stats.deletes
      /\ s.errors = stats.errors
      /\ DOMAIN s =
           {"hits", "misses", "sets", "deletes", "errors", "hitRate"}

\* getStats was called with 2 hits and 1 miss counted and returned 66.67
C18_Witness ==
  /\ last.op = "getStats"
  /\ stats.hits = 2
  /\ stats.misses = 1
  /\ last.ret.hitRate = 6667

\* C19: healthCheck never throws; a ping that succeeds in under 100 ms gives
\* 'healthy' with the latency, one that succeeds in 100 ms or more gives
\* 'degraded' with the latency, one that throws gives 'unhealthy' with the
\* message of the error
C19_HealthCheckClassifies ==
  last.op = "healthCheck"
  => LET ping == last.args[1]
     IN  /\ ~last.threw
         /\ IF ping.threw
            THEN /\ last.ret.status = "unhealthy"
                 /\ last.ret.error = ping.message
                 /\ DOMAIN last.ret = {"status", "error"}
            ELSE /\ last.ret.status =
                      (IF ping.latency < 100 THEN "healthy" ELSE "degraded")
                 /\ last.ret.latency = ping.latency
                 /\ DOMAIN last.ret = {"status", "latency"}

\* a ping that took exactly 100 ms was reported as degraded, with the flag
\* false
C19_Witness ==
  /\ last.op = "healthCheck"
  /\ ~last.conn
  /\ ~last.args[1].threw
  /\ last.args[1].latency = 100
  /\ last.ret.status = "degraded"

\* C20: the connected flag is false after construction; 'connect' and
\* 'ready' make it true, 'error' makes it false, 'reconnecting' leaves it as
\* it is and no operation changes it; an operation reads the flag as the
\* last of these events left it: with the flag false it returns its safe
\* default and sends nothing to the store, with the flag true (again) it
\* calls the store
C20_FlagFollowsClientEvents ==
  /\ ~isConnected
  /\ [][ /\ (last'.seq = last.seq /\ (OnConnect \/ OnReady)) => isConnected'
         /\ (last'.seq = last.seq /\ OnError) => ~isConnected'
         /\ (last'.seq = last.seq /\ OnReconnecting)
              => isConnected' = isConnected
         /\ isConnected' # isConnected
              => last'.seq = last.seq /\ (OnConnect \/ OnReady \/ OnError)
         /\ (last'.seq # last.seq /\ last'.op \in FallbackOps)
              => /\ last'.conn = isConnected
                 /\ IF isConnected
                    THEN last'.cmds # <<>>
                    ELSE /\ last'.cmds = <<>>
                         /\ store' = store
                         /\ SafeDefault(last') ]_vars

\* a set was served and stored its entry, an error event then made the
\* flag false, the get of that key fell back to null with the entry still
\* in the store, and a later 'connect' or 'ready' made the flag true again
C20_Witness ==
  /\ isConnected
  /\ last.op = "get"
  /\ last.seq = 3
  /\ ~last.conn
  /\ last.ret = Null
  /\ last.cmds = <<>>
  /\ Physical(last.args[1]) \in DOMAIN store
  /\ stats = [NoStats EXCEPT !.sets = 1, !.errors = 1, !.misses = 1]

\* C21: connect never throws and, when the client's connect fails, logs the
\* failure; it leaves the connected flag, the counters and the store as they
\* are, so that while no 'connect' or 'ready' event has set the flag every
\* operation returns its safe default and sends nothing
C21_ConnectNeverThrows ==
  [][ /\ (last'.seq # last.seq /\ last'.op = "connect")
           => /\ ~last'.threw
              /\ last'.ret.logged = (last'.fail = 1)
              /\ isConnected' = isConnected
              /\ stats' = stats
              /\ store' = store
      /\ (last'.seq # last.seq /\ last'.op \in FallbackOps
             /\ last.op = "connect" /\ ~isConnected)
           => /\ ~last'.threw
              /\ last'.cmds = <<>>
              /\ SafeDefault(last') ]_vars

\* the client's connect failed: connect returned after logging it and the
\* flag is false for the operations that follow
C21_Witness ==
  /\ last.op = "connect"
  /\ last.fail = 1
  /\ ~last.threw
  /\ last.ret.logged
  /\ ~isConnected
  /\ nops < MaxOps

\* C22: the step in which the handler calls res.json sends the handler's
\* response at once, with the write-back or the invalidations it started
\* still outstanding and no store call completed; a response that has gone
\* out is not changed by what happens to them afterwards
C22_ResponseDoesNotWaitForCache ==
  [][ \A r \in Reqs :
        /\ (req[r].pc = "handler" /\ req[r].hstatus = 0
               /\ req'[r].hstatus # 0)
             => /\ req'[r].pc = "done"
                /\ req'[r].served = "handler"
                /\ req'[r].status = req'[r].hstatus
                /\ req'[r].body = req'[r].hbody
                /\ store' = store
                /\ stats' = stats
        /\ req[r].pc = "done"
             => /\ req'[r].pc = "done"
                /\ req'[r].status = req[r].status
                /\ req'[r].body = req[r].body
                /\ req'[r].headers = req[r].headers
                /\ req'[r].served = req[r].served ]_vars

\* a GET got its handler's response although its write-back then failed,
\* and a mutation got its 2xx response while an invalidation is outstanding
C22_Witness ==
  \E r1, r2 \in Reqs :
    /\ req[r1].pc = "done"
    /\ req[r1].served = "handler"
    /\ req[r1].wb = "failed"
    /\ req[r1].status = req[r1].hstatus
    /\ req[r2].pc = "done"
    /\ req[r2].capture = "invalidate"
    /\ Is2xx(req[r2].status)
    /\ \E i \in 1..Len(req[r2].inv) : req[r2].inv[i].pc = "scan"

\* C23: every 2xx response to a GET on a cached route carries
\* Cache-Control: max-age=<the route's ttl>, whether it was served by the
\* handler after a miss or from the cache
C23_MaxAgeOnEveryCacheableResponse ==
  \A r \in Reqs :
    ( /\ req[r].pc = "done"
      /\ req[r].in.method = "GET"
      /\ Is2xx(req[r].status) )
    => req[r].headers.cc = RouteMaxAge(req[r].in.route)

\* the TTL a write asks for: the entry's own, else the option's, else 300
AskedTtl(entryTtl, optionTtl) ==
  IF entryTtl # 0 THEN entryTtl ELSE IF optionTtl # 0 THEN optionTtl ELSE 300

\* C24: a served set leaves its key with the TTL of options.ttl, or 300
\* when none is given; a served setMultiple leaves each key with the
\* entry's ttl, else options.ttl, else 300; a write-back of the response
\* cache leaves its entry with the route's ttl, and a hit announces as
\* max-age the TTL its entry was written with
C24_TtlAsAskedFor ==
  [][ /\ ServedCall("set")
           => store'[Physical(buildKey(last'.args[1], last'.opts.prefix))].ttl
                = AskedTtl(0, last'.opts.ttl)
      /\ ServedCall("setMultiple")
           => \A j \in 1..Len(last'.args) :
                store'[Physical(buildKey(last'.args[j].key,
                                         last'.opts.prefix))].ttl
                  = AskedTtl(last'.args[j].ttl, last'.opts.ttl)
      /\ \A r \in Reqs :
           /\ (req[r].wb = "pending" /\ req'[r].wb = "stored")
                => /\ store'[EntryKey(req[r])].ttl = RouteTtl(req[r].in.route)
                   /\ "max-age=" \o ToString(store'[EntryKey(req[r])].ttl)
                        = RouteMaxAge(req[r].in.route)
           /\ (req[r].pc = "lookup" /\ req'[r].served = "cache")
                => req'[r].headers.cc
                     = "max-age=" \o ToString(store[EntryKey(req[r])].ttl)
    ]_vars

\* a setMultiple without options left a with 300 and b with its own 600,
\* and a GET of the stats route was served from an entry written with 180
C24_Witness ==
  /\ last.op = "setMultiple"
  /\ Physical(<<"a">>) \in DOMAIN store
  /\ Physical(<<"b">>) \in DOMAIN store
  /\ store[Physical(<<"a">>)].ttl = 300
  /\ store[Physical(<<"b">>)].ttl = 600
  /\ \E r \in Reqs :
       /\ req[r].served = "cache"
       /\ req[r].in.route = "stats"
       /\ req[r].headers.cc = "max-age=180"
       /\ EntryKey(req[r]) \in DOMAIN store
       /\ store[EntryKey(req[r])].ttl = 180

\* the text a served write must leave in the store for value
HandedToStore(text, value) ==
  IF value.t = "str" THEN text = value.v
  ELSE /\ text = JSONstringify(value)
       /\ JSONparse(text).ok
       /\ JSONparse(text).val = value

C26_UnparsableEntryReturnedRaw ==
  [][ ServedCall("get")
      => LET pk == Physical(buildKey(last'.args[1], last'.opts.prefix))
         IN  (pk \in DOMAIN store /\ ~JSONparse(store[pk].val).ok)
             => /\ ~last'.threw
                /\ last'.ret = Str(store[pk].val)
                /\ stats' = [stats EXCEPT !.hits = @ + 1] ]_vars

\* the store holds the text a, which is not JSON, and a get returned it
C26_Witness ==
  /\ last.op = "get"
  /\ last.conn
  /\ last.fail = 0
  /\ last.ret = Str(Chars(<<"a">>))
  /\ Physical(buildKey(last.args[1], last.opts.prefix)) \in DOMAIN store
  /\ store[Physical(buildKey(last.args[1], last.opts.prefix))].val
       = Chars(<<"a">>)
  /\ stats.hits = 1
  /\ stats.errors = 0

\* the data of the response stored under physical key k
StoredData(sto, k) == JSONparse(sto[k].val).val.v.data

\* data is a report count read before the mutation m committed
ReadBefore(data, m) ==
  \E d1, d2 \in 0..MaxDb :
    /\ d1 < d2
    /\ data = Num(Numeral(d1))
    /\ req[m].hbody = Num(Numeral(d2))

\* C27: with the store connected and no store call failing, when the
\* invalidation of 'response:reports:*' started by a successful mutation
\* has run, the store holds no list entry computed from data read before
\* that mutation committed: such an entry can only be written after the
\* scan
C27_StaleOnlyIfWrittenAfterScan ==
  [][ \A m \in Reqs :
        ( /\ Len(req[m].inv) >= 1
          /\ req[m].inv[1].pc = "scan"
          /\ req'[m].inv[1].pc = "done"
          /\ stats'.errors = 0 )
        => \A r \in Reqs :
             ( /\ req[r].in.route = "list"
               /\ EntryKey(req[r]) \in DOMAIN store' )
             => ~ReadBefore(StoredData(store', EntryKey(req[r])), m) ]_vars

\* two GETs with the same key that both went down the miss path
BothMissed(r1, r2) ==
  /\ r1 # r2
  /\ req[r1].in.method = "GET"
  /\ req[r2].in.method = "GET"
  /\ req[r1].key = req[r2].key
  /\ req[r1].capture = "cache"
  /\ req[r2].capture = "cache"

\* C28: of two GETs with the same key that both missed, each runs its
\* handler exactly once and each starts a write-back of its own response;
\* a write-back the store commits leaves under the key the whole response of
\* that write, whatever was there, so that after both writes the entry is
\* the response of the later one
C28_ConcurrentMissesLastWriteWins ==
  [][ /\ \A r1, r2 \in Reqs :
           (BothMissed(r1, r2) /\ req[r1].pc = "done" /\ req[r2].pc = "done")
           => /\ req[r1].nexts = 1
              /\ req[r2].nexts = 1
              /\ \A r \in {r1, r2} :
                   ( /\ Is2xx(req[r].hstatus)
                     /\ condition(req[r].in, req[r].hstatus,
                                   req[r].headers.cc) )
                   => /\ req[r].wb # "none"
                      /\ req[r].entry.v.data = req[r].hbody
                      /\ req[r].entry.v.statusCode = req[r].hstatus
      /\ \A r \in Reqs :
           (req[r].wb = "pending" /\ req'[r].wb = "stored")
           => /\ EntryKey(req[r]) \in DOMAIN store'
              /\ JSONparse(store'[EntryKey(req[r])].val).ok
              /\ JSONparse(store'[EntryKey(req[r])].val).val = req[r].entry
    ]_vars

\* both of two GETs of the list missed and wrote back different responses
\* (a report was created between their handlers); the store holds the
\* response of the first, whose write came last
C28_Witness ==
  \E r1, r2 \in Reqs :
    /\ BothMissed(r1, r2)
    /\ r1 < r2
    /\ req[r1].wb = "stored"
    /\ req[r2].wb = "stored"
    /\ req[r1].entry # req[r2].entry
    /\ req[r1].hbody = Num(Numeral(0))
    /\ req[r2].hbody = Num(Numeral(1))
    /\ EntryKey(req[r1]) \in DOMAIN store
    /\ JSONparse(store[EntryKey(req[r1])].val).val = req[r1].entry

\* C29: every key under which a response of the list, stats or detail
\* route is stored is returned by the key scan of at least one pattern of
\* invalidateReportsCache, and deleting the names a scan returns removes
\* exactly the keys it found
C29_PatternsCoverStoredKeys ==
  \A r \in Reqs :
    ( /\ req[r].wb = "stored"
      /\ req[r].in.route \in {"list", "stats", "detail"}
      /\ EntryKey(req[r]) \in DOMAIN store )
    => /\ \E i \in 1..Len(invalidateReportsPatterns) :
            EntryKey(req[r]) \in redisKeys(store, invalidateReportsPatterns[i])
       /\ \A i \in 1..Len(invalidateReportsPatterns) :
            LET found == redisKeys(store, invalidateReportsPatterns[i])
            IN  DOMAIN redisDel(store, found).store = DOMAIN store \ found

\* C30: a request that is not a GET, or that skipCache picks, is passed to
\* next() once with no key computed, no X-Cache header, no capture of
\* res.json, and the counters and the store as they were; its handler's
\* response starts no write either
C30_BypassTouchesNothing ==
  [][ \A r \in Reqs :
        /\ ( /\ req[r].pc = "idle"
             /\ req'[r].pc # "idle"
             /\ (req'[r].in.method # "GET" \/ skipCache(req'[r].in)) )
           => /\ req'[r].pc = "handler"
              /\ req'[r].nexts = 1
              /\ req'[r].key = <<>>
              /\ req'[r].headers = NoHeaders
              /\ req'[r].capture = "none"
              /\ stats' = stats
              /\ store' = store
        /\ ( /\ req[r].pc = "handler"
             /\ (req[r].in.method # "GET" \/ skipCache(req[r].in)) )
           => /\ req'[r].nexts = 1
              /\ req'[r].key = <<>>
              /\ req'[r].headers.xcache = ""
              /\ req'[r].wb = "none"
              /\ (req'[r].pc = "done" => stats' = stats /\ store' = store)
    ]_vars

\* with the store disconnected, a POST and a GET that skipCache picked were
\* both answered by their handlers and no counter has moved
C30_Witness ==
  \E r1, r2 \in Reqs :
    /\ req[r1].pc = "done"
    /\ req[r1].in.method = "POST"
    /\ req[r2].pc = "done"
    /\ req[r2].in.method = "GET"
    /\ skipCache(req[r2].in)
    /\ req[r2].served = "handler"
    /\ req[r2].headers.xcache = ""
    /\ ~isConnected
    /\ stats = NoStats

\* C31: a GET handled by cacheMiddleware is either answered from the cache
\* without next(), or passed to the handler through exactly one next(),
\* also when the lookup fails or finds a value that cannot be replayed;
\* the handler runs after the lookup and the write-back starts after the
\* handler
C31_ReplayOrNextOnce ==
  \A r \in Reqs :
    req[r].in.method = "GET"
    => /\ req[r].nexts <= 1
       /\ req[r].pc = "lookup"
            => req[r].nexts = 0 /\ req[r].served = "none"
       /\ req[r].pc = "handler"
            => req[r].nexts = 1 /\ req[r].served = "none"
       /\ req[r].pc = "done"
            => \/ req[r].served = "cache" /\ req[r].nexts = 0
                  /\ req[r].hstatus = 0
               \/ req[r].served = "handler" /\ req[r].nexts = 1
                  /\ req[r].hstatus # 0
       /\ req[r].wb # "none" => req[r].served = "handler"

\* a lookup that did not fail found a value that is not a stored response:
\* the replay raised before any header was set, the catch block called
\* next() once and the handler answered
C31_Witness ==
  \E r \in Reqs :
    /\ req[r].in.method = "GET"
    /\ req[r].pc = "done"
    /\ req[r].capture = "none"
    /\ req[r].headers.xcache = ""
    /\ req[r].served = "handler"
    /\ req[r].nexts = 1
    /\ last.op = "set"
    /\ last.conn

\* the list requests whose page is above 10 or whose limit is above 100
BeyondStandardPagination(inp) ==
  \/ HasParam(inp.query, "page") /\ Param(inp.query, "page") = "11"
  \/ HasParam(inp.query, "limit") /\ Param(inp.query, "limit") = "101"

\* C32: reportsListCache writes a response to the cache only when its status
\* is 200, the page is at most 10 and the limit at most 100; a request
\* beyond these bounds is answered by the handler and leaves no entry under
\* its key
C32_ListCachedWithinBoundsOnly ==
  \A r \in Reqs :
    req[r].in.route = "list"
    => /\ (req[r].wb # "none" \/ req[r].entry # Null)
            => /\ req[r].hstatus = 200
               /\ ~BeyondStandardPagination(req[r].in)
       /\ BeyondStandardPagination(req[r].in)
            => /\ EntryKey(req[r]) \notin DOMAIN store
               /\ req[r].pc = "done"
                    => req[r].served = "handler" /\ req[r].nexts = 1

\* the same GET of page 11 was answered 200 by the handler twice, the second
\* arriving after the first was done, and nothing was written; a GET whose
\* page is not a number was stored as page 1 is
C32_Witness ==
  \E r1, r2, r3 \in Reqs :
    /\ r1 < r2
    /\ req[r1].in.query = << <<"page", "11">> >>
    /\ req[r2].in = req[r1].in
    /\ req[r1].pc = "done" /\ req[r2].pc = "done"
    /\ req[r1].hstatus = 200 /\ req[r2].hstatus = 200
    /\ req[r1].headers.cc = "" /\ req[r2].headers.cc = ""
    /\ req[r2].headers.xcache = "MISS"
    /\ req[r2].served = "handler"
    /\ req[r1].wb = "none" /\ req[r2].wb = "none"
    /\ req[r3].in.query = << <<"page", "x">> >>
    /\ req[r3].wb = "stored"
    /\ EntryKey(req[r3]) \in DOMAIN store

\* C33: a get adds one to exactly one of hits and misses, a getMultiple adds
\* the number of its keys to hits + misses, whether the store is connected,
\* disconnected or its call throws; no other step changes either counter
C33_LookupsCountedOnce ==
  [][ /\ (last'.seq # last.seq /\ last'.op = "get")
           => \/ stats'.hits = stats.hits + 1 /\ stats'.misses = stats.misses
              \/ stats'.hits = stats.hits /\ stats'.misses = stats.misses + 1
      /\ (last'.seq # last.seq /\ last'.op = "getMultiple")
           => /\ stats'.hits >= stats.hits
              /\ stats'.misses >= stats.misses
              /\ stats'.hits + stats'.misses
                   = stats.hits + stats.misses + Len(last'.args)
      /\ (last'.seq = last.seq \/ last'.op \notin {"get", "getMultiple"})
           => stats'.hits = stats.hits /\ stats'.misses = stats.misses
    ]_vars

\* after a get that hit, the mget of a getMultiple of three keys threw on a
\* connected store: three misses and one error were added
C33_Witness ==
  /\ last.op = "getMultiple"
  /\ Len(last.args) = 3
  /\ StoreCallThrew(last)
  /\ stats.hits = 1
  /\ stats.misses = 3
  /\ stats.errors = 1

Counters == {"hits", "misses", "sets", "deletes", "errors"}

\* C35: resetStats sets the five counters to 0, so that the hit rate reads
\* 0, and leaves the store and the connected flag as they are; getStats
\* changes nothing; no other step makes a counter smaller
C35_ResetStatsOnlyZeroes ==
  [][ /\ (last'.seq # last.seq /\ last'.op = "resetStats")
           => /\ \A c \in Counters : stats'[c] = 0
              /\ getStats(stats').hitRate = 0
              /\ store' = store
              /\ isConnected' = isConnected
      /\ (last'.seq # last.seq /\ last'.op = "getStats")
           => /\ stats' = stats
              /\ store' = store
              /\ isConnected' = isConnected
      /\ ~(last'.seq # last.seq /\ last'.op = "resetStats")
           => \A c \in Counters : stats'[c] >= stats[c]
    ]_vars

\* resetStats was the third call on a connected service, after the set that
\* left the entry in the store: the counters read 0, the entry is there and
\* the flag is true
C35_Witness ==
  /\ last.op = "resetStats"
  /\ last.seq = 3
  /\ last.conn
  /\ isConnected
  /\ stats = NoStats
  /\ Physical(LifeKey) \in DOMAIN store

\* the samples of the call c whose name is in names
SamplesOf(c, names) ==
  {i \in 1..Len(c.metrics) : c.metrics[i].name \in names}

OutcomeCounters ==
  {"cache_hits_total", "cache_misses_total", "cache_sets_total",
   "cache_deletes_total"}

\* C36: every execution of get, set, delete, exists, getMultiple,
\* setMultiple, invalidatePattern and flush records exactly one duration
\* sample and exactly one outcome counter with the metrics collector, and
\* changes the counters of CacheStats
C36_EveryOperationRecordsMetrics ==
  [][ (last'.seq # last.seq /\ last'.op \in FallbackOps)
      => /\ Cardinality(SamplesOf(last', {"cache_operation_duration"})) = 1
         /\ Cardinality(SamplesOf(last', OutcomeCounters)) = 1
         /\ stats' # stats
    ]_vars

\* C37: disconnect calls the client's disconnect exactly when it finds the
\* connected flag true, and leaves the flag false; after disconnect has
\* returned the flag stays false, whatever the client emits, as long as
\* connect is not called
C37_DisconnectedUntilConnect ==
  [][ /\ (last'.seq # last.seq /\ last'.op = "disconnect")
           => /\ (last'.cmds = <<"disconnect">>) <=> isConnected
              /\ (last'.cmds = <<>>) <=> ~isConnected
              /\ ~isConnected'
      /\ (last.op = "disconnect"
            /\ ~(last'.seq # last.seq /\ last'.op = "connect"))
           => ~isConnected'
    ]_vars

\* C38: a call of get, set, delete, exists, flush, getMultiple, setMultiple
\* or invalidatePattern leaves the connected flag as it found it, also when
\* its store call throws; the flag changes only at an event of the client
\* or in disconnect; and the operation that follows a failed one, the flag
\* being true still, sends its command to the store
C38_OperationsLeaveTheFlag ==
  [][ /\ (last'.seq # last.seq /\ last'.op \in FallbackOps)
           => isConnected' = isConnected
      /\ isConnected' # isConnected
           => \/ last'.seq = last.seq
              \/ last'.op = "disconnect"
      /\ (last'.seq # last.seq /\ last'.op \in FallbackOps
            /\ StoreCallThrew(last) /\ isConnected)
           => last'.conn /\ last'.cmds # <<>>
    ]_vars

\* the store call of a get threw, and the get that followed went to the
\* store as well (its call threw too): two errors and two misses after two
\* calls, and the flag is true
C38_Witness ==
  /\ last.op = "get"
  /\ last.seq = 2
  /\ StoreCallThrew(last)
  /\ last.cmds = <<"get">>
  /\ stats.errors = 2
  /\ stats.misses = 2
  /\ stats.hits = 0
  /\ isConnected

====
